---- MODULE Spec2Model ----
(***************************************************************************)
(* Model of SimplifiedFlashcardSystem.create_flashcards                    *)
(* (src/src/flashcard-generator.py): content supply, the                   *)
(* generate -> assess -> refine loop and the conversion of the final       *)
(* candidate list into QAFlashcard records.                                *)
(*                                                                         *)
(* Text is a sequence of characters.  Scores are held in thousandths       *)
(* (8.0 is 8000), quality factors and weights in hundredths (0.9 is 90),   *)
(* so that factor * weight is a score in thousandths.                      *)
(* A JSON object is a function whose DOMAIN is the set of its keys.        *)
(***************************************************************************)
EXTENDS Integers, Sequences, FiniteSets, TLC

\* ------------------------------------------------------------------ bounds
MaxIter == 2
MaxCards == 2

\* ------------------------------------------------- python values and dicts
None == [none |-> TRUE]

EmptyDict == [k \in {} |-> 0]

Get(d, k, default) == IF k \in DOMAIN d THEN d[k] ELSE default

Truthy(d) == d # None /\ DOMAIN d # {}

\* ---------------------------------------------------------------- strings
Whitespace == {" ", "\t", "\n"}

RECURSIVE LStrip(_)
LStrip(s) ==
    IF s # <<>> /\ Head(s) \in Whitespace THEN LStrip(Tail(s)) ELSE s

RECURSIVE RStrip(_)
RStrip(s) ==
    IF s # <<>> /\ s[Len(s)] \in Whitespace
    THEN RStrip(SubSeq(s, 1, Len(s) - 1))
    ELSE s

\* Strip that strips nothing
StripNothing(s) == s

Strip(s) == RStrip(LStrip(s))

LowerChar(c) ==
    CASE c = "A" -> "a"
      [] c = "G" -> "g"
      [] c = "I" -> "i"
      [] c = "O" -> "o"
      [] OTHER -> c

Lower(s) == [i \in 1..Len(s) |-> LowerChar(s[i])]

ReplaceSpace(s) == [i \in 1..Len(s) |-> IF s[i] = " " THEN "_" ELSE s[i]]

Contains(key, s) ==
    \E i \in 0..(Len(s) - Len(key)) : SubSeq(s, i + 1, i + Len(key)) = key

\* ------------------------------------------------------------ enumerations
ContentSource == {"auto_generate", "text_file", "direct_input", "predefined", "wikipedia"}

DifficultyLevel == {"beginner", "intermediate", "advanced"}

\* --------------------------------------------------------------- the inputs
TopicAzure == <<"A", "z", "u", "r", "e", " ", "O", "p", "e", "n", "A", "I">>

TopicOther == <<"G", "o", " ", "I", "O">>

Topics == {TopicAzure, TopicOther}

Text == <<"t", "x", "t">>

Blank == <<" ", "\n">>

Padded == <<" ">> \o Text \o <<"\n">>

Contents == {<<>>, Blank, Text}

FileNames == {<<"n", "o", "t", "e", "s">>}

\* ------------------------------------------------------------- file system
\* A file system maps a file name to its raw content, or to None when the
\* file does not exist.
Missing == <<"<", "m", "i", "s", "s", "i", "n", "g", ">">>

AzureOpenAIFile == <<"azure_openai.txt">>

AzureFunctionsFile == <<"azure_functions.txt">>

PredefinedTopics ==
    << [key |-> <<"a", "z", "u", "r", "e", " ", "o", "p", "e", "n", "a", "i">>,
        filename |-> AzureOpenAIFile],
       [key |-> <<"a", "z", "u", "r", "e", " ", "f", "u", "n", "c", "t", "i", "o", "n", "s">>,
        filename |-> AzureFunctionsFile] >>

FileContents == {Missing, <<>>, Padded}

\* ContentManager.read_content_file: the stripped content, or FileNotFoundError.
ReadContentFile(fs, filename) ==
    IF fs[filename] = Missing
    THEN [raised |-> TRUE, value |-> <<>>]
    ELSE [raised |-> FALSE, value |-> Strip(fs[filename])]

Placeholder(t) == <<"Please provide content about ">> \o t \o <<" to generate flashcards.">>

RECURSIVE PredefinedFrom(_, _, _)
PredefinedFrom(fs, t, k) ==
    IF k > Len(PredefinedTopics)
    THEN Placeholder(t)
    ELSE IF Contains(PredefinedTopics[k].key, Lower(t))
              /\ ~ReadContentFile(fs, PredefinedTopics[k].filename).raised
         THEN ReadContentFile(fs, PredefinedTopics[k].filename).value
         ELSE PredefinedFrom(fs, t, k + 1)

GetPredefinedContent(fs, t) == PredefinedFrom(fs, t, 1)

\* ----------------------------------------------------------- quality model
\* weights with uniqueness weighted 0.10
weightsUniquenessTen ==
    << [factor |-> "conceptual_atomicity", weight |-> 15],
       [factor |-> "conciseness", weight |-> 15],
       [factor |-> "standalone_context", weight |-> 10],
       [factor |-> "requires_specific_answer", weight |-> 10],
       [factor |-> "no_hints", weight |-> 10],
       [factor |-> "technical_precision", weight |-> 10],
       [factor |-> "practical_value", weight |-> 10],
       [factor |-> "bidirectional_design", weight |-> 10],
       [factor |-> "uniqueness", weight |-> 10],
       [factor |-> "design_rationale", weight |-> 5] >>

\* the weights of the ten quality factors, in hundredths, in dictionary order
weights ==
    << [factor |-> "conceptual_atomicity", weight |-> 15],
       [factor |-> "conciseness", weight |-> 15],
       [factor |-> "standalone_context", weight |-> 10],
       [factor |-> "requires_specific_answer", weight |-> 10],
       [factor |-> "no_hints", weight |-> 10],
       [factor |-> "technical_precision", weight |-> 10],
       [factor |-> "practical_value", weight |-> 10],
       [factor |-> "bidirectional_design", weight |-> 10],
       [factor |-> "uniqueness", weight |-> 5],
       [factor |-> "design_rationale", weight |-> 5] >>

FactorNames == {weights[k].factor : k \in 1..Len(weights)}

RECURSIVE WeightedSum(_, _)
WeightedSum(quality_factors, k) ==
    IF k > Len(weights)
    THEN 0
    ELSE Get(quality_factors, weights[k].factor, 0) * weights[k].weight
         + WeightedSum(quality_factors, k + 1)

\* CardQuality scaled by 100 instead of 10
CardQualityTimes100(quality_factors) == WeightedSum(quality_factors, 1) * 10

\* sum(quality_factors.get(factor, 0) * weight ...) * 10, in thousandths:
\* a factor in hundredths times a weight in hundredths is the product
\* in ten-thousandths, and the scaling by 10 makes that thousandths.
CardQuality(quality_factors) == WeightedSum(quality_factors, 1)

min_atomicity == 90
min_conciseness == 80
min_standalone == 90
min_no_hints == 90

\* BelowFloor without the no_hints check
BelowFloorWithoutNoHints(factors) ==
    \/ Get(factors, "conceptual_atomicity", 0) < min_atomicity
    \/ Get(factors, "conciseness", 0) < min_conciseness
    \/ Get(factors, "standalone_context", 0) < min_standalone

\* the condition of the if statement at lines 783-786
BelowFloor(factors) ==
    \/ Get(factors, "conceptual_atomicity", 0) < min_atomicity
    \/ Get(factors, "conciseness", 0) < min_conciseness
    \/ Get(factors, "standalone_context", 0) < min_standalone
    \/ Get(factors, "no_hints", 0) < min_no_hints

\* QualityCriteriaMet that starts from False and needs an entry to pass
RECURSIVE QualityCriteriaMetNeedsEntry(_, _)
QualityCriteriaMetNeedsEntry(assessments, k) ==
    IF k > Len(assessments)
    THEN k > 1
    ELSE IF BelowFloor(Get(assessments[k], "quality_factors", EmptyDict))
         THEN FALSE
         ELSE QualityCriteriaMetNeedsEntry(assessments, k + 1)

\* the for loop at lines 780-788: quality_criteria_met after the walk over
\* the assessment entries from position k on
RECURSIVE QualityCriteriaMet(_, _)
QualityCriteriaMet(assessments, k) ==
    IF k > Len(assessments)
    THEN TRUE
    ELSE IF BelowFloor(Get(assessments[k], "quality_factors", EmptyDict))
         THEN FALSE
         ELSE QualityCriteriaMet(assessments, k + 1)

\* ThresholdReached that counts a missing critical_issues as one issue
ThresholdReachedCriticalDefault(asmt, threshold) ==
    /\ Get(asmt, "overall_score", 0) >= threshold
    /\ Get(asmt, "critical_issues", 1) = 0
    /\ QualityCriteriaMet(Get(asmt, "assessments", <<>>), 1)

\* ThresholdReached with a strict comparison of the score
ThresholdReachedStrict(asmt, threshold) ==
    /\ Get(asmt, "overall_score", 0) > threshold
    /\ Get(asmt, "critical_issues", 0) = 0
    /\ QualityCriteriaMet(Get(asmt, "assessments", <<>>), 1)

\* the condition of the if statement at line 790
ThresholdReached(asmt, threshold) ==
    /\ Get(asmt, "overall_score", 0) >= threshold
    /\ Get(asmt, "critical_issues", 0) = 0
    /\ QualityCriteriaMet(Get(asmt, "assessments", <<>>), 1)

\* ---------------------------------------------------------------- feedback
SeedFeedback == <<"Initial creation - focus on high-quality, concise flashcards.">>

GenericFeedback ==
    <<"Continue improving quality with focus on technical precision and bidirectional design.">>

RECURSIVE Join(_, _)
Join(sep, parts) ==
    IF parts = <<>> THEN <<>>
    ELSE IF Len(parts) = 1 THEN parts
    ELSE <<Head(parts), sep>> \o Join(sep, Tail(parts))

\* priorities[-2:]
FirstTwoFromEnd(priorities) ==
    SubSeq(priorities, IF Len(priorities) < 2 THEN 1 ELSE Len(priorities) - 1, Len(priorities))

\* priorities[:2]
FirstTwo(priorities) == SubSeq(priorities, 1, IF Len(priorities) < 2 THEN Len(priorities) ELSE 2)

\* ---------------------------------------------------------- materialization
DigitChars == <<"0", "1", "2", "3", "4", "5", "6", "7", "8", "9">>

RECURSIVE Decimal(_)
Decimal(n) ==
    IF n < 10
    THEN <<DigitChars[n + 1]>>
    ELSE Decimal(n \div 10) \o <<DigitChars[(n % 10) + 1]>>

RECURSIVE ZeroPad(_, _)
ZeroPad(digits, width) ==
    IF Len(digits) >= width THEN digits ELSE ZeroPad(<<"0">> \o digits, width)

\* f"{n:03d}"
Format03d(n) == ZeroPad(Decimal(n), 3)

\* CardId that numbers the cards from 0
CardIdFromZero(t, i) == ReplaceSpace(Lower(t)) \o <<"_">> \o Format03d(i)

\* f"{topic.lower().replace(' ', '_')}_{i+1:03d}", i counted from 0
CardId(t, i) == ReplaceSpace(Lower(t)) \o <<"_">> \o Format03d(i + 1)

\* MakeFlashcard that leaves the score of a card without factors at 0
MakeFlashcardNoFallback(card_data, i, t, diff, score) ==
    LET quality_factors == Get(card_data, "quality_factors", EmptyDict)
        card_quality == IF DOMAIN quality_factors # {}
                        THEN CardQuality(quality_factors)
                        ELSE 0
    IN  [question |-> Get(card_data, "question", ""),
         answer |-> Get(card_data, "answer", ""),
         topic |-> t,
         difficulty |-> Get(card_data, "difficulty", diff),
         quality_score |-> card_quality,
         concept |-> Get(card_data, "concept", ""),
         id |-> CardId(t, i)]

\* QAFlashcard(...) at lines 839-869, for the card at position i (from 0)
MakeFlashcard(card_data, i, t, diff, score) ==
    LET quality_factors == Get(card_data, "quality_factors", EmptyDict)
        card_quality == IF DOMAIN quality_factors # {}
                        THEN CardQuality(quality_factors)
                        ELSE score
    IN  [question |-> Get(card_data, "question", ""),
         answer |-> Get(card_data, "answer", ""),
         topic |-> t,
         difficulty |-> Get(card_data, "difficulty", diff),
         quality_score |-> card_quality,
         concept |-> Get(card_data, "concept", ""),
         id |-> CardId(t, i)]

\* FinalCards over cards_data[1:]
FinalCardsFromSecond(data, t, diff, score) ==
    IF Truthy(data)
    THEN LET all_cards == Get(data, "flashcards", <<>>)
             cards_data == SubSeq(all_cards, 2, Len(all_cards))
         IN  [i \in 1..Len(cards_data) |-> MakeFlashcard(cards_data[i], i - 1, t, diff, score)]
    ELSE <<>>

\* FinalCards that skips a card equal to the one before it
FinalCardsDedup(data, t, diff, score) ==
    IF Truthy(data)
    THEN LET cards_data == Get(data, "flashcards", <<>>)
             kept == SelectSeq([i \in 1..Len(cards_data) |-> [at |-> i, card |-> cards_data[i]]],
                               LAMBDA e : e.at = 1 \/ cards_data[e.at - 1] # e.card)
         IN  [i \in 1..Len(kept) |-> MakeFlashcard(kept[i].card, i - 1, t, diff, score)]
    ELSE <<>>

\* lines 832-870: final_cards
FinalCards(data, t, diff, score) ==
    IF Truthy(data)
    THEN LET cards_data == Get(data, "flashcards", <<>>)
         IN  [i \in 1..Len(cards_data) |-> MakeFlashcard(cards_data[i], i - 1, t, diff, score)]
    ELSE <<>>

\* ------------------------------------------- what the service can answer
AllOnes == [f \in FactorNames |-> 100]

\* every required factor exactly at its floor
AtFloor ==
    [AllOnes EXCEPT !["conceptual_atomicity"] = 90, !["conciseness"] = 80,
                    !["standalone_context"] = 90, !["no_hints"] = 90]

LowAtomicity == [AllOnes EXCEPT !["conceptual_atomicity"] = 89]

LowConciseness == [AllOnes EXCEPT !["conciseness"] = 79]

LowStandalone == [AllOnes EXCEPT !["standalone_context"] = 89]

LowNoHints == [AllOnes EXCEPT !["no_hints"] = 89]

NoHintsMissing == [f \in FactorNames \ {"no_hints"} |-> 100]

FailingFactors == {LowAtomicity, LowConciseness, LowStandalone, LowNoHints, NoHintsMissing}

CardFull ==
    [question |-> "q1", answer |-> "a1", concept |-> "c1", difficulty |-> "beginner",
     quality_factors |-> AtFloor]

CardBare == [question |-> "q2", answer |-> "a2"]

CardPool == {CardFull, CardBare}

CardLists == UNION {[1..n -> CardPool] : n \in 0..MaxCards}

\* parsed generation and refinement objects
CardObjects == {[flashcards |-> l] : l \in CardLists} \cup {EmptyDict}

CardAssessment(k, factors) == [card_index |-> k, quality_factors |-> factors, weighted_score |-> 0]

ConvergingAssessments ==
    { [overall_score |-> 8000, critical_issues |-> 0,
       assessments |-> <<CardAssessment(0, AtFloor)>>,
       improvement_priorities |-> <<"p1", "p2">>],
      [overall_score |-> 10000, improvement_priorities |-> <<>>] }

OtherAssessments ==
    { EmptyDict,
      [overall_score |-> 7900, critical_issues |-> 0,
       assessments |-> <<CardAssessment(0, AtFloor)>>,
       improvement_priorities |-> <<"p1">>],
      [overall_score |-> 8000, critical_issues |-> 1,
       assessments |-> <<CardAssessment(0, AtFloor)>>,
       improvement_priorities |-> <<"p1", "p2", "p3">>] }
    \cup
    { [overall_score |-> 8000, critical_issues |-> 0,
       assessments |-> <<CardAssessment(0, AtFloor), CardAssessment(1, f)>>,
       improvement_priorities |-> <<"p2", "p1">>] : f \in FailingFactors }

AssessmentObjects == ConvergingAssessments \cup OtherAssessments

\* A completion: the call raises, the text is empty, or the text is not
\* JSON, a JSON array, or a JSON object.
Completion(status, value) == [status |-> status, value |-> value]

Failures == {Completion("raise", EmptyDict), Completion("empty", EmptyDict)}

Malformed == {Completion("invalid", EmptyDict), Completion("array", [array |-> <<>>])}

GenerationResponses == Failures \cup Malformed \cup {Completion("object", o) : o \in CardObjects}

AssessmentResponses == Failures \cup Malformed \cup {Completion("object", o) : o \in AssessmentObjects}

RefinementResponses == GenerationResponses

ContentResponses == Failures \cup {Completion("text", c) : c \in {Blank, Text}}

\* _call_azure_openai raises on a failed request and on empty content
CallFails(resp) == resp.status \in {"raise", "empty"}

CallError(resp) == IF resp.status = "raise" THEN "ServiceError" ELSE "ValueError"

\* ------------------------------------------------------------------- state
VARIABLES
    topic, content, content_source, content_file, difficulty,
    max_iterations, quality_threshold,      \* the arguments
    final_content, feedback, flashcard_data, overall_score,
    iteration_metrics, iteration, assessment,   \* the locals
    pc,             \* where the coroutine is suspended, or how it ended
    result,         \* the returned list, None before the return
    error,          \* the exception raised, "none" if none
    stop,           \* how the loop was left
    genCalls, assessCalls, refineCalls,     \* calls made by the loop
    resolved,       \* how the content source resolved
    failure,        \* the loop stage whose service call failed, and the calls made by then
    genUnparseable, \* generate responses that were not JSON
    lastProduced,   \* cards of the last generate or refine response parsed as an object
    origin,         \* the stage whose response flashcard_data holds, "none" before any
    contentCalls,   \* calls made for AUTO_GENERATE content
    answered,       \* service calls that have returned or raised
    event,          \* the stage and kind of the last service response handled
    factors_in, fallback_in,    \* a quality factor set and a fallback score to evaluate
    scored          \* the evaluation of factors_in, None before it

args == <<topic, content, content_source, content_file, difficulty,
          max_iterations, quality_threshold>>

locals == <<final_content, feedback, flashcard_data, overall_score,
            iteration_metrics, iteration, assessment>>

calls == <<genCalls, assessCalls, refineCalls>>

observed == <<resolved, failure, genUnparseable, lastProduced, origin>>

service == <<contentCalls, answered, event>>

quality == <<factors_in, fallback_in, scored>>

vars == <<args, locals, pc, result, error, stop, calls, observed, service, quality>>

Event(stage, kind) == [stage |-> stage, kind |-> kind]

Files == FileNames \cup {AzureOpenAIFile, AzureFunctionsFile}

FileSystems == [Files -> FileContents]

WikipediaResults == {Missing, <<>>, Text}

Init ==
    /\ content_source \in ContentSource
    \* the topic decides the content only for the predefined source
    /\ topic \in (IF content_source = "predefined" THEN Topics ELSE {TopicAzure})
    /\ content \in (IF content_source = "direct_input" THEN Contents ELSE {<<>>})
    /\ content_file \in (IF content_source = "text_file" THEN FileNames \cup {<<>>} ELSE {<<>>})
    /\ difficulty = "intermediate"
    /\ max_iterations \in 1..MaxIter
    /\ quality_threshold = 8000
    /\ final_content = <<>>
    /\ feedback = SeedFeedback
    /\ flashcard_data = None
    /\ overall_score = 0
    /\ iteration_metrics = <<>>
    /\ iteration = 0
    /\ assessment = None
    /\ pc = "start"
    /\ result = None
    /\ error = "none"
    /\ stop = "none"
    /\ genCalls = 0 /\ assessCalls = 0 /\ refineCalls = 0
    /\ resolved = "pending"
    /\ failure = None
    /\ genUnparseable = 0
    /\ lastProduced = <<>>
    /\ origin = "none"
    /\ contentCalls = 0
    /\ answered = 0
    /\ event = Event("none", "none")
    /\ factors_in = EmptyDict
    /\ fallback_in = 0
    /\ scored = None

\* ------------------------------------------------------------ content supply
Supplied(text, how) == [error |-> "none", final_content |-> text, resolved |-> how]

NotSupplied(err, text, how) == [error |-> err, final_content |-> text, resolved |-> how]

\* whether the predefined source knows the topic and has its file
PredefinedResolved(fs, t) ==
    LET known == {k \in 1..Len(PredefinedTopics) : Contains(PredefinedTopics[k].key, Lower(t))}
    IN  IF known = {} THEN "unknown_topic"
        ELSE IF \A k \in known : ReadContentFile(fs, PredefinedTopics[k].filename).raised
             THEN "missing_file"
             ELSE "ok"

\* lines 668-697, for every source but AUTO_GENERATE
ContentFrom(fs, wiki) ==
    CASE content_source = "text_file" ->
            IF content_file = <<>>
            THEN NotSupplied("ValueError", <<>>, "no_file")
            ELSE IF ReadContentFile(fs, content_file).raised
                 THEN NotSupplied("FileNotFoundError", <<>>, "missing_file")
                 ELSE Supplied(ReadContentFile(fs, content_file).value, "ok")
      [] content_source = "direct_input" ->
            IF content = <<>>
            THEN NotSupplied("ValueError", <<>>, "no_input")
            ELSE Supplied(content, "ok")
      [] content_source = "wikipedia" ->
            \* the else branch at line 686 runs first, then lines 691-697
            IF wiki = Missing
            THEN NotSupplied("ValueError", GetPredefinedContent(fs, topic), "lookup_failed")
            ELSE Supplied(wiki, "ok")
      [] OTHER ->
            Supplied(GetPredefinedContent(fs, topic), PredefinedResolved(fs, topic))

\* ------------------------------------------------- feedback of a refinement
\* RefineFeedback that sets the feedback only while it is the seed
RefineFeedbackOnce(asmt) ==
    LET priorities == Get(asmt, "improvement_priorities", <<>>)
    IN  IF feedback # <<"Initial creation - focus on high-quality, concise flashcards.">>
        THEN feedback
        ELSE IF priorities # <<>>
             THEN <<"Focus on: ">> \o Join("; ", FirstTwo(priorities))
             ELSE <<"Continue improving quality with focus on technical precision and bidirectional design.">>

\* lines 822-826
RefineFeedback(asmt) ==
    LET priorities == Get(asmt, "improvement_priorities", <<>>)
    IN  IF priorities # <<>>
        THEN <<"Focus on: ">> \o Join("; ", FirstTwo(priorities))
        ELSE GenericFeedback

\* ------------------------------------------------------- control fragments
\* Raise that logs the exception and returns what the loop holds
RaiseSwallowed(err) ==
    /\ pc' = "done"
    /\ result' = [cards |-> FinalCards(flashcard_data, topic, difficulty, overall_score)]
    /\ UNCHANGED <<error, stop>>

\* an exception leaves create_flashcards
Raise(err) ==
    /\ pc' = "error"
    /\ error' = err
    /\ UNCHANGED <<result, stop>>

\* Return that treats an empty result as an error
ReturnRaisesOnEmpty(how, data, score) ==
    /\ stop' = how
    /\ IF FinalCards(data, topic, difficulty, score) = <<>>
       THEN /\ pc' = "error"
            /\ error' = "ValueError"
            /\ UNCHANGED result
       ELSE /\ pc' = "done"
            /\ result' = [cards |-> FinalCards(data, topic, difficulty, score)]
            /\ UNCHANGED error

\* Return that gives the cards only after convergence
ReturnOnlyConverged(how, data, score) ==
    /\ pc' = "done"
    /\ stop' = how
    /\ result' = [cards |-> IF how = "converged"
                            THEN FinalCards(data, topic, difficulty, score)
                            ELSE <<>>]
    /\ UNCHANGED error

\* lines 832-880: the loop is left and the final cards are returned
Return(how, data, score) ==
    /\ pc' = "done"
    /\ stop' = how
    /\ result' = [cards |-> FinalCards(data, topic, difficulty, score)]
    /\ UNCHANGED error

\* ForLoop that starts the generate calls of two passes without awaiting the first
ForLoopPrefetch(k, data, score) ==
    IF k < max_iterations
    THEN /\ iteration' = k
         /\ pc' = "await_generate"
         /\ genCalls' = genCalls + 2
         /\ UNCHANGED <<result, error, stop>>
    ELSE /\ UNCHANGED <<iteration, genCalls>>
         /\ Return("exhausted", data, score)

\* ForLoop over range(1), whatever max_iterations is
ForLoopSinglePass(k, data, score) ==
    IF k < 1
    THEN /\ iteration' = k
         /\ pc' = "await_generate"
         /\ genCalls' = genCalls + 1
         /\ UNCHANGED <<result, error, stop>>
    ELSE /\ UNCHANGED <<iteration, genCalls>>
         /\ Return("exhausted", data, score)

\* ForLoop over range(max_iterations + 2)
ForLoopTwoMore(k, data, score) ==
    IF k < max_iterations + 2
    THEN /\ iteration' = k
         /\ pc' = "await_generate"
         /\ genCalls' = genCalls + 1
         /\ UNCHANGED <<result, error, stop>>
    ELSE /\ UNCHANGED <<iteration, genCalls>>
         /\ Return("exhausted", data, score)

\* ForLoop with a bound that admits one pass too many
ForLoopOffByOne(k, data, score) ==
    IF k <= max_iterations
    THEN /\ iteration' = k
         /\ pc' = "await_generate"
         /\ genCalls' = genCalls + 1
         /\ UNCHANGED <<result, error, stop>>
    ELSE /\ UNCHANGED <<iteration, genCalls>>
         /\ Return("exhausted", data, score)

\* line 712-717: the for statement is reached with index k; either the next
\* generate call is made or the loop is exhausted
ForLoop(k, data, score) ==
    IF k < max_iterations
    THEN /\ iteration' = k
         /\ pc' = "await_generate"
         /\ genCalls' = genCalls + 1
         /\ UNCHANGED <<result, error, stop>>
    ELSE /\ UNCHANGED <<iteration, genCalls>>
         /\ Return("exhausted", data, score)

\* lines 699-712: the content check and the entry into the loop
EnterLoop(c) ==
    IF c.error # "none"
    THEN Raise(c.error) /\ UNCHANGED <<iteration, genCalls>>
    ELSE IF Strip(c.final_content) = <<>>
         THEN Raise("ValueError") /\ UNCHANGED <<iteration, genCalls>>
         ELSE ForLoop(0, flashcard_data, overall_score)

Failed(stage) == [stage |-> stage, calls |-> genCalls + assessCalls + refineCalls]

\* ------------------------------------------------------------------ actions
\* create_flashcards is called with a source other than AUTO_GENERATE
CreateFlashcards ==
    /\ pc = "start"
    /\ content_source # "auto_generate"
    /\ \E fs \in FileSystems, wiki \in WikipediaResults :
          LET c == ContentFrom(fs, wiki)
          IN  /\ final_content' = c.final_content
              /\ resolved' = c.resolved
              /\ EnterLoop(c)
    /\ UNCHANGED <<args, feedback, flashcard_data, overall_score, iteration_metrics,
                   assessment, assessCalls, refineCalls, failure, genUnparseable,
                   lastProduced, origin, service, quality>>

\* create_flashcards is called with AUTO_GENERATE: line 673 awaits the service
CreateFromGenerated ==
    /\ pc = "start"
    /\ content_source = "auto_generate"
    /\ pc' = "await_content"
    /\ contentCalls' = contentCalls + 1
    /\ UNCHANGED <<args, locals, result, error, stop, calls, observed, answered, event,
                   quality>>

\* the content completion arrives: lines 286-291, then 699-717
ContentResponse ==
    /\ pc = "await_content"
    /\ \E resp \in ContentResponses :
          LET c == IF CallFails(resp)
                   THEN NotSupplied(CallError(resp), <<>>, "generation_failed")
                   ELSE Supplied(resp.value, "ok")
          IN  /\ final_content' = c.final_content
              /\ resolved' = c.resolved
              /\ event' = Event("content", IF CallFails(resp) THEN "failed" ELSE "text")
              /\ EnterLoop(c)
    /\ answered' = answered + 1
    /\ UNCHANGED <<args, feedback, flashcard_data, overall_score, iteration_metrics,
                   assessment, assessCalls, refineCalls, failure, genUnparseable,
                   lastProduced, origin, contentCalls, quality>>

\* GenerateParsed that goes on to the assessment with an empty list too
GenerateParsedAssessEmpty(resp) ==
    LET cards_data == Get(resp.value, "flashcards", <<>>)
    IN  /\ flashcard_data' = resp.value
        /\ lastProduced' = cards_data
        /\ origin' = "generated"
        /\ event' = Event("generate", IF Len(cards_data) = 0 THEN "empty" ELSE "cards")
        /\ UNCHANGED <<refineCalls, failure, genUnparseable>>
        /\ pc' = "await_assess"
        /\ assessCalls' = assessCalls + 1
        /\ UNCHANGED <<iteration, genCalls, result, error, stop>>

\* GenerateParsed that keeps the candidate list it already holds
GenerateParsedKeepsList(resp) ==
    LET cards_data == Get(resp.value, "flashcards", <<>>)
    IN  /\ flashcard_data' = IF flashcard_data = None THEN resp.value ELSE flashcard_data
        /\ lastProduced' = cards_data
        /\ origin' = IF flashcard_data = None THEN "generated" ELSE origin
        /\ event' = Event("generate", IF Len(cards_data) = 0 THEN "empty" ELSE "cards")
        /\ UNCHANGED <<refineCalls, failure, genUnparseable>>
        /\ IF Len(cards_data) = 0
           THEN /\ ForLoop(iteration + 1, flashcard_data', overall_score)
                /\ UNCHANGED assessCalls
           ELSE /\ pc' = "await_assess"
                /\ assessCalls' = assessCalls + 1
                /\ UNCHANGED <<iteration, genCalls, result, error, stop>>

\* lines 720-733: the generation response is a JSON object
GenerateParsed(resp) ==
    LET cards_data == Get(resp.value, "flashcards", <<>>)
    IN  /\ flashcard_data' = resp.value
        /\ lastProduced' = cards_data
        /\ origin' = "generated"
        /\ event' = Event("generate", IF Len(cards_data) = 0 THEN "empty" ELSE "cards")
        /\ UNCHANGED <<refineCalls, failure, genUnparseable>>
        /\ IF Len(cards_data) = 0
           THEN /\ ForLoop(iteration + 1, resp.value, overall_score)
                /\ UNCHANGED assessCalls
           ELSE /\ pc' = "await_assess"
                /\ assessCalls' = assessCalls + 1
                /\ UNCHANGED <<iteration, genCalls, result, error, stop>>

\* the generation completion arrives: lines 717-733
GenerateResponse ==
    /\ pc = "await_generate"
    /\ \E resp \in GenerationResponses :
          CASE CallFails(resp) ->
                 /\ Raise(CallError(resp))
                 /\ failure' = Failed("generate")
                 /\ event' = Event("generate", "failed")
                 /\ UNCHANGED <<flashcard_data, iteration, calls, genUnparseable,
                                lastProduced, origin>>
            [] resp.status = "invalid" ->
                 \* json.loads raises JSONDecodeError before the assignment: continue
                 /\ ForLoop(iteration + 1, flashcard_data, overall_score)
                 /\ genUnparseable' = genUnparseable + 1
                 /\ event' = Event("generate", "invalid")
                 /\ UNCHANGED <<flashcard_data, assessCalls, refineCalls, failure,
                                lastProduced, origin>>
            [] resp.status = "array" ->
                 \* flashcard_data is a list: .get raises AttributeError
                 /\ flashcard_data' = resp.value
                 /\ origin' = "generated"
                 /\ event' = Event("generate", "array")
                 /\ Raise("AttributeError")
                 /\ UNCHANGED <<iteration, calls, failure, genUnparseable, lastProduced>>
            [] OTHER -> GenerateParsed(resp)
    /\ answered' = answered + 1
    /\ UNCHANGED <<args, final_content, feedback, overall_score, iteration_metrics,
                   assessment, resolved, contentCalls, quality>>

\* IterationRecord that stores the loop index as it is, counted from 0
IterationRecordFromZero(k, asmt) ==
    [iteration |-> k,
     overall_score |-> Get(asmt, "overall_score", 0),
     critical_issues |-> Get(asmt, "critical_issues", 0),
     quality_distribution |-> Get(asmt, "quality_distribution", EmptyDict),
     improvement_priorities |-> Get(asmt, "improvement_priorities", <<>>)]

\* the record appended at lines 760-766
IterationRecord(k, asmt) ==
    [iteration |-> k + 1,
     overall_score |-> Get(asmt, "overall_score", 0),
     critical_issues |-> Get(asmt, "critical_issues", 0),
     quality_distribution |-> Get(asmt, "quality_distribution", EmptyDict),
     improvement_priorities |-> Get(asmt, "improvement_priorities", <<>>)]

\* AssessUnparseable that goes on to the refinement
AssessUnparseableFallsThrough ==
    /\ event' = Event("assess", "invalid")
    /\ pc' = "await_refine"
    /\ refineCalls' = refineCalls + 1
    /\ UNCHANGED <<assessment, overall_score, iteration_metrics, iteration, genCalls,
                   assessCalls, failure, result, error, stop>>

\* lines 794-796: the assessment response is not JSON: continue
AssessUnparseable ==
    /\ event' = Event("assess", "invalid")
    /\ ForLoop(iteration + 1, flashcard_data, overall_score)
    /\ UNCHANGED <<assessment, overall_score, iteration_metrics,
                   assessCalls, refineCalls, failure>>

\* the assessment completion arrives: lines 733-802
AssessResponse ==
    /\ pc = "await_assess"
    /\ \E resp \in AssessmentResponses :
          CASE CallFails(resp) ->
                 /\ Raise(CallError(resp))
                 /\ failure' = Failed("assess")
                 /\ event' = Event("assess", "failed")
                 /\ UNCHANGED <<assessment, overall_score, iteration_metrics, iteration, calls>>
            [] resp.status = "invalid" -> AssessUnparseable
            [] resp.status = "array" ->
                 \* assessment is a list: .get raises AttributeError
                 /\ assessment' = resp.value
                 /\ event' = Event("assess", "array")
                 /\ Raise("AttributeError")
                 /\ UNCHANGED <<overall_score, iteration_metrics, iteration, calls, failure>>
            [] OTHER ->
                 /\ assessment' = resp.value
                 /\ event' = Event("assess", "object")
                 /\ overall_score' = Get(resp.value, "overall_score", 0)
                 /\ iteration_metrics' = Append(iteration_metrics, IterationRecord(iteration, resp.value))
                 /\ UNCHANGED <<iteration, genCalls, assessCalls, failure>>
                 /\ IF ThresholdReached(resp.value, quality_threshold)
                    THEN /\ Return("converged", flashcard_data, Get(resp.value, "overall_score", 0))
                         /\ UNCHANGED refineCalls
                    ELSE /\ pc' = "await_refine"
                         /\ refineCalls' = refineCalls + 1
                         /\ UNCHANGED <<result, error, stop>>
    /\ answered' = answered + 1
    /\ UNCHANGED <<args, final_content, feedback, flashcard_data, resolved,
                   genUnparseable, lastProduced, origin, contentCalls, quality>>

\* RefineUnparseable that continues with the next iteration
RefineUnparseableContinues ==
    /\ event' = Event("refine", "invalid")
    /\ ForLoop(iteration + 1, flashcard_data, overall_score)
    /\ UNCHANGED <<flashcard_data, feedback, assessCalls, refineCalls, failure,
                   lastProduced, origin>>

\* lines 828-830: the refinement response is not JSON: break
RefineUnparseable ==
    /\ event' = Event("refine", "invalid")
    /\ Return("refine_failed", flashcard_data, overall_score)
    /\ UNCHANGED <<flashcard_data, feedback, iteration, calls, failure,
                   lastProduced, origin>>

\* the refinement completion arrives: lines 800-830
RefineResponse ==
    /\ pc = "await_refine"
    /\ \E resp \in RefinementResponses :
          CASE CallFails(resp) ->
                 /\ Raise(CallError(resp))
                 /\ failure' = Failed("refine")
                 /\ event' = Event("refine", "failed")
                 /\ UNCHANGED <<flashcard_data, feedback, iteration, calls, lastProduced, origin>>
            [] resp.status = "invalid" -> RefineUnparseable
            [] resp.status = "array" ->
                 \* refined_data is a list: .get raises AttributeError at line 806
                 /\ event' = Event("refine", "array")
                 /\ Raise("AttributeError")
                 /\ UNCHANGED <<flashcard_data, feedback, iteration, calls, failure,
                                lastProduced, origin>>
            [] OTHER ->
                 /\ flashcard_data' = resp.value
                 /\ event' = Event("refine", "object")
                 /\ feedback' = RefineFeedback(assessment)
                 /\ lastProduced' = Get(resp.value, "flashcards", <<>>)
                 /\ origin' = "refined"
                 /\ ForLoop(iteration + 1, resp.value, overall_score)
                 /\ UNCHANGED <<assessCalls, refineCalls, failure>>
    /\ answered' = answered + 1
    /\ UNCHANGED <<args, final_content, overall_score, iteration_metrics, assessment,
                   resolved, genUnparseable, contentCalls, quality>>

Next ==
    \/ CreateFlashcards
    \/ CreateFromGenerated
    \/ ContentResponse
    \/ GenerateResponse
    \/ AssessResponse
    \/ RefineResponse

Spec == Init /\ [][Next]_vars

\* every service call returns or raises in the end
FairSpec == Spec /\ WF_vars(Next)

\* ------------------------------------------------------- one pass more
\* Runs of MaxIter + 1 passes on content given directly or generated, so
\* that a generate call can follow two parsed assessments.
InitLong ==
    /\ content_source \in {"direct_input", "auto_generate"}
    /\ topic = TopicAzure
    /\ content = (IF content_source = "direct_input" THEN Text ELSE <<>>)
    /\ content_file = <<>>
    /\ difficulty = "intermediate"
    /\ max_iterations = MaxIter + 1
    /\ quality_threshold = 8000
    /\ final_content = <<>>
    /\ feedback = SeedFeedback
    /\ flashcard_data = None
    /\ overall_score = 0
    /\ iteration_metrics = <<>>
    /\ iteration = 0
    /\ assessment = None
    /\ pc = "start"
    /\ result = None
    /\ error = "none"
    /\ stop = "none"
    /\ genCalls = 0 /\ assessCalls = 0 /\ refineCalls = 0
    /\ resolved = "pending"
    /\ failure = None
    /\ genUnparseable = 0
    /\ lastProduced = <<>>
    /\ origin = "none"
    /\ contentCalls = 0
    /\ answered = 0
    /\ event = Event("none", "none")
    /\ factors_in = EmptyDict
    /\ fallback_in = 0
    /\ scored = None

SpecLong == InitLong /\ [][Next]_vars

\* ------------------------------------------------- the quality model alone
\* The scoring of one card and the floor check of one assessment entry,
\* applied to a quality factor set: each required factor is absent, 0, just
\* below its floor, at its floor or 1.0; the six other factors are all
\* absent, all 0 or all 1.0.
RequiredNames == {"conceptual_atomicity", "conciseness", "standalone_context", "no_hints"}

FloorOf(f) ==
    CASE f = "conceptual_atomicity" -> min_atomicity
      [] f = "conciseness" -> min_conciseness
      [] f = "standalone_context" -> min_standalone
      [] OTHER -> min_no_hints

Levels == {"absent", "zero", "below", "floor", "one"}

LevelValue(f, level) ==
    CASE level = "zero" -> 0
      [] level = "below" -> FloorOf(f) - 1
      [] level = "floor" -> FloorOf(f)
      [] OTHER -> 100

FactorSet(required, others) ==
    [f \in {r \in RequiredNames : required[r] # "absent"}
           \cup (IF others = "absent" THEN {} ELSE FactorNames \ RequiredNames) |->
        IF f \in RequiredNames THEN LevelValue(f, required[f]) ELSE LevelValue(f, others)]

FactorSets ==
    {FactorSet(required, others) :
        required \in [RequiredNames -> Levels], others \in {"absent", "zero", "one"}}

FallbackScores == {0, 8000, 10000}

InitQuality ==
    /\ content_source = "direct_input"
    /\ topic = TopicAzure
    /\ content = Text
    /\ content_file = <<>>
    /\ difficulty = "intermediate"
    /\ max_iterations = 1
    /\ quality_threshold = 8000
    /\ final_content = <<>>
    /\ feedback = SeedFeedback
    /\ flashcard_data = None
    /\ overall_score = 0
    /\ iteration_metrics = <<>>
    /\ iteration = 0
    /\ assessment = None
    /\ pc = "start"
    /\ result = None
    /\ error = "none"
    /\ stop = "none"
    /\ genCalls = 0 /\ assessCalls = 0 /\ refineCalls = 0
    /\ resolved = "pending"
    /\ failure = None
    /\ genUnparseable = 0
    /\ lastProduced = <<>>
    /\ origin = "none"
    /\ contentCalls = 0
    /\ answered = 0
    /\ event = Event("none", "none")
    /\ factors_in \in FactorSets
    /\ fallback_in \in FallbackScores
    /\ scored = None

\* lines 839-869 for a card with the factor set, and lines 780-788 for an
\* assessment whose only entry has it
ScoreCard ==
    /\ scored = None
    /\ scored' =
          [card |-> MakeFlashcard([question |-> "q1", answer |-> "a1",
                                   quality_factors |-> factors_in],
                                  0, topic, difficulty, fallback_in),
           quality_criteria_met |-> QualityCriteriaMet(<<CardAssessment(0, factors_in)>>, 1)]
    /\ UNCHANGED <<args, locals, pc, result, error, stop, calls, observed, service,
                   factors_in, fallback_in>>

NextQuality == ScoreCard

SpecQuality == InitQuality /\ [][NextQuality]_vars

\* ================================================================== claims
\* what the claims say of a quality factor set and of a card, stated apart
\* from the operators of the model
RequiredFloors ==
    [conceptual_atomicity |-> 90, conciseness |-> 80, standalone_context |-> 90, no_hints |-> 90]

MeetsFloor(factors) ==
    \A f \in DOMAIN RequiredFloors :
        f \in DOMAIN factors /\ factors[f] >= RequiredFloors[f]

AssessedCards(asmt) == IF "assessments" \in DOMAIN asmt THEN asmt["assessments"] ELSE <<>>

FactorsOf(entry) == IF "quality_factors" \in DOMAIN entry THEN entry["quality_factors"] ELSE EmptyDict

ScoreOf(asmt) == IF "overall_score" \in DOMAIN asmt THEN asmt["overall_score"] ELSE 0

CriticalOf(asmt) == IF "critical_issues" \in DOMAIN asmt THEN asmt["critical_issues"] ELSE 0

ConvergenceCondition(asmt) ==
    /\ ScoreOf(asmt) >= quality_threshold
    /\ CriticalOf(asmt) = 0
    /\ \A k \in 1..Len(AssessedCards(asmt)) : MeetsFloor(FactorsOf(AssessedCards(asmt)[k]))

TextOf(card, field) == IF field \in DOMAIN card THEN card[field] ELSE ""

\* out carries, position by position, the question, answer and concept of cands
SameCards(out, cands) ==
    /\ Len(out) = Len(cands)
    /\ \A i \in 1..Len(cands) :
          /\ out[i].question = TextOf(cands[i], "question")
          /\ out[i].answer = TextOf(cands[i], "answer")
          /\ out[i].concept = TextOf(cands[i], "concept")

\* a step in which an assessment response is parsed and recorded
AssessmentParsed ==
    /\ pc = "await_assess"
    /\ Len(iteration_metrics') = Len(iteration_metrics) + 1

TotalCalls == genCalls + assessCalls + refineCalls

\* C1: the loop never makes more than max_iterations generate calls,
\* whatever the service answers.
C1_GenerateCallsBounded == genCalls <= max_iterations

C1_Witness == pc = "done" /\ max_iterations > 1 /\ genCalls = max_iterations

\* C2: in a step that parses an assessment, the loop stops as Converged if
\* and only if overall_score >= quality_threshold, critical_issues = 0 and
\* every assessed card meets the floors.
C2_ConvergedIff ==
    [][AssessmentParsed =>
         ((pc' = "done" /\ stop' = "converged") <=> ConvergenceCondition(assessment'))]_vars

C2_Witness == pc = "done" /\ stop = "converged" /\ Len(iteration_metrics) > 1

\* C3: when the first iteration's assessment satisfies the three conditions,
\* the run ends in that step with one generate call, one assess call, no
\* refine call, and returns the cards of the first generated list.
C3_FirstIterationConverges ==
    [][(AssessmentParsed /\ iteration = 0 /\ ConvergenceCondition(assessment')) =>
         /\ pc' = "done"
         /\ error' = "none"
         /\ genCalls' = 1 /\ assessCalls' = 1 /\ refineCalls' = 0
         /\ SameCards(result'.cards, lastProduced)]_vars

C3_Witness ==
    /\ pc = "done" /\ stop = "converged" /\ iteration = 0
    /\ genCalls = 1 /\ assessCalls = 1 /\ refineCalls = 0
    /\ Len(result.cards) > 0

\* C4: when every generate response of all max_iterations rounds is
\* unparseable, the run made max_iterations generate calls and no other
\* call, holds no candidate list, and has returned zero flashcards without
\* an error.
C4_AllUnparseable ==
    genUnparseable = max_iterations =>
        /\ pc = "done"
        /\ error = "none"
        /\ genCalls = max_iterations /\ assessCalls = 0 /\ refineCalls = 0
        /\ flashcard_data = None
        /\ result = [cards |-> <<>>]

C4_Witness == genUnparseable = max_iterations /\ max_iterations > 1 /\ pc = "done"

C6_FailureIsFatal ==
    failure # None =>
        /\ pc = "error"
        /\ error \in {"ServiceError", "ValueError"}
        /\ result = None
        /\ TotalCalls = failure.calls

C6_Witness ==
    /\ failure # None /\ failure.stage = "generate"
    /\ lastProduced # <<>> /\ iteration > 0

\* C7: when the supplied content is empty or only whitespace, the run has
\* ended with an error without any generate, assess or refine call.
IsBlank(text) == \A i \in 1..Len(text) : text[i] \in {" ", "\t", "\n"}

C7_EmptyContentIsFatal ==
    (pc \notin {"start", "await_content"} /\ IsBlank(final_content)) =>
        /\ pc = "error"
        /\ error # "none"
        /\ TotalCalls = 0
        /\ result = None

C7_Witness == pc = "error" /\ final_content # <<>> /\ IsBlank(final_content)

\* C8: when the requested source cannot be resolved (missing file, unknown
\* topic, failed lookup), the run has ended with an error and no generate
\* call is made.
C8_UnresolvedSourceIsFatal ==
    resolved \in {"missing_file", "unknown_topic", "lookup_failed"} =>
        pc = "error" /\ genCalls = 0

\* C9: the returned list has one flashcard per card of the final candidate
\* list, in the same order, with that card's question, answer and concept.
FinalCandidates ==
    IF flashcard_data = None \/ "flashcards" \notin DOMAIN flashcard_data
    THEN <<>>
    ELSE flashcard_data["flashcards"]

C9_OneCardPerCandidate == pc = "done" => SameCards(result.cards, FinalCandidates)

C9_Witness ==
    /\ pc = "done" /\ Len(result.cards) = 2
    /\ result.cards[1].question = result.cards[2].question
    /\ result.cards[1].answer = result.cards[2].answer

\* C10: the id of the i-th returned flashcard is the topic in lower case
\* with "_" for each space, then "_", then i as three decimal digits; the
\* ids of one run are pairwise distinct and their numbers grow with i.
DigitValue(c) == CHOOSE d \in 0..9 : DigitChars[d + 1] = c

IsSlugOf(slug, t) ==
    /\ Len(slug) = Len(t)
    /\ \A k \in 1..Len(t) :
          slug[k] = (CASE t[k] = " " -> "_"
                       [] t[k] = "A" -> "a"
                       [] t[k] = "G" -> "g"
                       [] t[k] = "I" -> "i"
                       [] t[k] = "O" -> "o"
                       [] OTHER -> t[k])

IdNumber(id) ==
    100 * DigitValue(id[Len(id) - 2]) + 10 * DigitValue(id[Len(id) - 1]) + DigitValue(id[Len(id)])

IsIdOf(id, t, i) ==
    /\ Len(id) = Len(t) + 4
    /\ IsSlugOf(SubSeq(id, 1, Len(t)), t)
    /\ id[Len(t) + 1] = "_"
    /\ \A k \in (Len(t) + 2)..Len(id) : id[k] \in {DigitChars[d] : d \in 1..10}
    /\ IdNumber(id) = i

C10_Ids ==
    pc = "done" =>
        /\ \A i \in 1..Len(result.cards) : IsIdOf(result.cards[i].id, topic, i)
        /\ \A i, j \in 1..Len(result.cards) :
              i < j => /\ result.cards[i].id # result.cards[j].id
                       /\ IdNumber(result.cards[i].id) < IdNumber(result.cards[j].id)

C10_Witness ==
    /\ pc = "done" /\ Len(result.cards) = 2 /\ topic = TopicAzure
    /\ result.cards[2].id =
          <<"a", "z", "u", "r", "e", "_", "o", "p", "e", "n", "a", "i", "_", "0", "0", "2">>

\* C11: the ten weights sum to 1.0; a card whose ten factors are all 1.0
\* scores exactly 10.0 and one whose ten factors are all 0.0 scores 0.0.
TenFactors ==
    {"conceptual_atomicity", "conciseness", "standalone_context",
     "requires_specific_answer", "no_hints", "technical_precision", "practical_value",
     "bidirectional_design", "uniqueness", "design_rationale"}

RECURSIVE WeightTotal(_)
WeightTotal(k) == IF k > Len(weights) THEN 0 ELSE weights[k].weight + WeightTotal(k + 1)

C11_WeightsSumToOne ==
    /\ Len(weights) = 10
    /\ {weights[k].factor : k \in 1..Len(weights)} = TenFactors
    /\ WeightTotal(1) = 100
    /\ (scored # None /\ factors_in = [f \in TenFactors |-> 100]) =>
          scored.card.quality_score = 10000
    /\ (scored # None /\ factors_in = [f \in TenFactors |-> 0]) =>
          scored.card.quality_score = 0

C11_Witness ==
    scored # None /\ factors_in = [f \in TenFactors |-> 100] /\ scored.card.quality_score = 10000

C13_FloorCheck ==
    scored # None => (scored.quality_criteria_met <=> MeetsFloor(factors_in))

C13_Witness ==
    /\ scored # None /\ ~scored.quality_criteria_met
    /\ DOMAIN factors_in = TenFactors
    /\ factors_in["conceptual_atomicity"] = 89
    /\ \A f \in TenFactors \ {"conceptual_atomicity"} : factors_in[f] = 100

\* C14 as stated: a refine call is outstanding only after an assessment
\* that did not converge and only while a further iteration remains.
C14_RefineOnlyIfIterationsRemain ==
    pc = "await_refine" =>
        /\ ~ConvergenceCondition(assessment)
        /\ iteration + 1 < max_iterations

\* C14 as amended: a refine call is made exactly in the steps that parse an
\* assessment which does not converge, in that same iteration, whether or
\* not a further iteration remains.
C14_RefineIffNotConverged ==
    [][/\ refineCalls' # refineCalls =>
             /\ AssessmentParsed
             /\ ~ConvergenceCondition(assessment')
             /\ refineCalls' = refineCalls + 1
             /\ pc' = "await_refine"
             /\ iteration' = iteration
       /\ (AssessmentParsed /\ ~ConvergenceCondition(assessment')) =>
             refineCalls' = refineCalls + 1]_vars

C14_Witness == pc = "await_refine" /\ iteration + 1 = max_iterations /\ max_iterations > 1

\* C15: when a generate or refine response parsed to a non-empty card list
\* and the run returns, the returned list is not empty.  An assess call is
\* made exactly when a generation parsed to a non-empty list, and a refine
\* call only after an assess call, so assessCalls > 0 says that such a
\* response was parsed.
C15_NonEmptyResult ==
    (pc = "done" /\ assessCalls > 0) => result.cards # <<>>

\* C16: under fairness of the service, the run ends, returned or raised,
\* within the max_iterations passes: after at most three answered calls
\* per pass and one for the content.
Terminated == pc \in {"done", "error"}

C16_Terminates ==
    <>(/\ Terminated
       /\ iteration < max_iterations
       /\ answered <= 3 * max_iterations + 1)

C16_Witness ==
    /\ pc = "done" /\ stop = "exhausted" /\ max_iterations > 1
    /\ refineCalls = max_iterations /\ contentCalls = 1

\* C17: at most one service call is outstanding, and one is outstanding
\* exactly while the run is suspended on it.
Outstanding == contentCalls + TotalCalls - answered

C17_OneOutstandingCall ==
    /\ Outstanding \in {0, 1}
    /\ Outstanding = 1 <=>
          pc \in {"await_content", "await_generate", "await_assess", "await_refine"}

C17_Witness == pc = "await_generate" /\ iteration > 0 /\ refineCalls > 0 /\ Outstanding = 1

\* a step that handles a generate response which is not JSON or holds no card
WastedGeneration ==
    /\ pc = "await_generate"
    /\ answered' = answered + 1
    /\ event'.stage = "generate"
    /\ event'.kind \in {"invalid", "empty"}

\* C18: a generate response that is unparseable or holds no card leads to
\* no assess and no refine call and no error; the iteration is spent, and
\* the next generate call follows if an iteration remains.
C18_WastedIteration ==
    [][WastedGeneration =>
         /\ assessCalls' = assessCalls /\ refineCalls' = refineCalls
         /\ error' = "none"
         /\ IF iteration + 1 < max_iterations
            THEN pc' = "await_generate" /\ iteration' = iteration + 1
                 /\ genCalls' = genCalls + 1
            ELSE pc' = "done" /\ stop' = "exhausted" /\ genCalls' = genCalls]_vars

C18_Witness ==
    /\ pc = "await_generate" /\ iteration > 0
    /\ event = Event("generate", "empty") /\ assessCalls = 0

\* C19: a generate response that cannot be read as an object holding the
\* card list, a JSON array included, does not end the run with an error.
C19_MalformedIsNotFatal ==
    (event.stage = "generate" /\ event.kind \in {"invalid", "array"}) =>
        (pc # "error" /\ error = "none")

\* C20: a wasted iteration leaves the candidate list, the feedback, the
\* last overall_score and the iteration history as they were.
C20_WastedIterationFrame ==
    [][WastedGeneration =>
         UNCHANGED <<flashcard_data, feedback, overall_score, iteration_metrics>>]_vars

\* a step that handles an assessment response which is not JSON
UnparseableAssessment ==
    /\ pc = "await_assess"
    /\ answered' = answered + 1
    /\ event' = Event("assess", "invalid")

\* C21: an assessment response that is unparseable leads to no refine call
\* in that iteration and leaves feedback, overall_score, the history and the
\* candidate list, which is the list generated in that iteration, as they
\* were; the next iteration's generate call follows, if one remains.
C21_UnparseableAssessmentFrame ==
    [][UnparseableAssessment =>
         /\ refineCalls' = refineCalls /\ assessCalls' = assessCalls
         /\ UNCHANGED <<feedback, overall_score, iteration_metrics, flashcard_data>>
         /\ origin = "generated"
         /\ Get(flashcard_data, "flashcards", <<>>) = lastProduced
         /\ error' = "none"
         /\ IF iteration + 1 < max_iterations
            THEN pc' = "await_generate" /\ iteration' = iteration + 1
                 /\ genCalls' = genCalls + 1
            ELSE pc' = "done" /\ stop' = "exhausted" /\ genCalls' = genCalls]_vars

C21_Witness ==
    /\ pc = "await_generate" /\ iteration > 0
    /\ event = Event("assess", "invalid")
    /\ refineCalls = 0 /\ iteration_metrics = <<>> /\ feedback = SeedFeedback

\* a step that handles a refinement response which is not JSON
UnparseableRefinement ==
    /\ pc = "await_refine"
    /\ answered' = answered + 1
    /\ event' = Event("refine", "invalid")

\* C22: a refinement response that is unparseable ends the loop at once,
\* whether or not iterations remain: no call is made, the candidate list is
\* still the list generated in that iteration, the feedback is unchanged,
\* and that list is materialized and returned without an error; no call
\* follows the return.
C22_UnparseableRefinementEndsLoop ==
    /\ [][UnparseableRefinement =>
            /\ UNCHANGED <<genCalls, assessCalls, refineCalls, feedback, flashcard_data>>
            /\ origin = "generated"
            /\ Get(flashcard_data, "flashcards", <<>>) = lastProduced
            /\ pc' = "done" /\ error' = "none"
            /\ SameCards(result'.cards, lastProduced)]_vars
    /\ [][pc = "done" => UNCHANGED <<genCalls, assessCalls, refineCalls, result>>]_vars

C22_Witness ==
    /\ pc = "done" /\ event = Event("refine", "invalid")
    /\ iteration + 1 < max_iterations
    /\ result.cards # <<>>

\* the feedback the claims ascribe to a list of improvement priorities
FeedbackOf(priorities) ==
    IF Len(priorities) = 0 THEN GenericFeedback
    ELSE IF Len(priorities) = 1 THEN <<"Focus on: ", priorities[1]>>
    ELSE <<"Focus on: ", priorities[1], "; ", priorities[2]>>

\* the improvement priorities of the most recent parsed assessment
LastPriorities == iteration_metrics[Len(iteration_metrics)].improvement_priorities

\* a step that handles a refinement response which is a JSON object
ParsedRefinement ==
    /\ pc = "await_refine"
    /\ answered' = answered + 1
    /\ event' = Event("refine", "object")

\* C23: when a refine response parses, the candidate list becomes the list
\* of the response as a whole, and the feedback becomes "Focus on: "
\* followed by the first two improvement priorities of that iteration's
\* assessment in their order, joined by "; " (one if there is one), or the
\* generic string if there is none.
C23_RefinementReplaces ==
    [][ParsedRefinement =>
         /\ Get(flashcard_data', "flashcards", <<>>) = lastProduced'
         /\ origin' = "refined"
         /\ iteration_metrics # <<>>
         /\ iteration_metrics[Len(iteration_metrics)].iteration = iteration + 1
         /\ feedback' = FeedbackOf(LastPriorities)]_vars

C23_Witness ==
    /\ event = Event("refine", "object") /\ origin = "refined"
    /\ iteration_metrics # <<>> /\ Len(LastPriorities) = 3
    /\ feedback = <<"Focus on: ", "p1", "; ", "p2">>
    /\ lastProduced # <<>>

\* C24: at every generate call the feedback is the seed message if no
\* assessment was parsed earlier in the run, and otherwise the feedback of
\* the most recent parsed assessment, never that of an older one.  While a
\* generate call is outstanding the feedback is the one it was made with.
C24_FeedbackProvenance ==
    pc = "await_generate" =>
        feedback = IF iteration_metrics = <<>>
                   THEN SeedFeedback
                   ELSE FeedbackOf(LastPriorities)

C24_Witness ==
    /\ pc = "await_generate" /\ Len(iteration_metrics) = 2
    /\ FeedbackOf(iteration_metrics[1].improvement_priorities) # FeedbackOf(LastPriorities)

\* the candidate cards when the loop is left
Candidates == Get(flashcard_data, "flashcards", <<>>)

\* the assessment has an entry for the card at position i (from 0) whose
\* factors meet every floor
CardMeetsFloor(asmt, i) ==
    \E k \in 1..Len(AssessedCards(asmt)) :
        /\ Get(AssessedCards(asmt)[k], "card_index", 0) = i
        /\ MeetsFloor(FactorsOf(AssessedCards(asmt)[k]))

\* C25: the loop converges only if every card of the candidate list has
\* factors in the assessment that meet the floors; an assessment with
\* entries for some of the cards only, or for none, does not converge.
C25_FloorOnEveryCard ==
    stop = "converged" =>
        \A i \in 1..Len(Candidates) : CardMeetsFloor(assessment, i - 1)

\* the aggregate the claims ascribe to a factor set, in thousandths: the
\* factors (hundredths, a missing one 0) times the weights (hundredths)
FactorValue(factors, f) == IF f \in DOMAIN factors THEN factors[f] ELSE 0

Aggregate(factors) ==
      15 * FactorValue(factors, "conceptual_atomicity")
    + 15 * FactorValue(factors, "conciseness")
    + 10 * FactorValue(factors, "standalone_context")
    + 10 * FactorValue(factors, "requires_specific_answer")
    + 10 * FactorValue(factors, "no_hints")
    + 10 * FactorValue(factors, "technical_precision")
    + 10 * FactorValue(factors, "practical_value")
    + 10 * FactorValue(factors, "bidirectional_design")
    + 5 * FactorValue(factors, "uniqueness")
    + 5 * FactorValue(factors, "design_rationale")

\* the overall_score of the most recent parsed assessment, 0 if there is none
LastOverallScore ==
    IF iteration_metrics = <<>> THEN 0
    ELSE iteration_metrics[Len(iteration_metrics)].overall_score

HasFactors(card) == "quality_factors" \in DOMAIN card /\ DOMAIN card["quality_factors"] # {}

\* C26: in the returned list a card whose candidate has quality factors has
\* the aggregate of those factors as quality_score, and a card whose
\* candidate has none has the overall_score of the most recent parsed
\* assessment, 0 if none was parsed: the same value for every such card.
C26_FallbackScore ==
    pc = "done" =>
        /\ Len(result.cards) = Len(Candidates)
        /\ \A i \in 1..Len(Candidates) :
              result.cards[i].quality_score =
                  IF HasFactors(Candidates[i])
                  THEN Aggregate(Candidates[i]["quality_factors"])
                  ELSE LastOverallScore

C26_Witness ==
    /\ pc = "done" /\ Len(Candidates) = 2
    /\ HasFactors(Candidates[1]) /\ ~HasFactors(Candidates[2])
    /\ LastOverallScore = 7900
    /\ result.cards[2].quality_score = 7900
    /\ result.cards[1].quality_score # 7900

\* a step that handles an assessment response which is a JSON object
ParsedAssessment ==
    /\ pc = "await_assess"
    /\ answered' = answered + 1
    /\ event' = Event("assess", "object")

HistoryWellFormed ==
    /\ Len(iteration_metrics) <= max_iterations
    /\ \A k \in 1..Len(iteration_metrics) :
          /\ iteration_metrics[k].iteration \in 1..max_iterations
          /\ k > 1 => iteration_metrics[k - 1].iteration < iteration_metrics[k].iteration

\* C27: the history is append-only: a step that parses an assessment
\* appends exactly one record, numbered with the iteration, and leaves the
\* earlier records as they were; no other step changes the history; the
\* iteration numbers are strictly increasing and lie in 1..max_iterations,
\* so there are never more than max_iterations records.
C27_HistoryAppendOnly ==
    /\ []HistoryWellFormed
    /\ [][IF ParsedAssessment
          THEN /\ Len(iteration_metrics') = Len(iteration_metrics) + 1
               /\ SubSeq(iteration_metrics', 1, Len(iteration_metrics)) = iteration_metrics
               /\ iteration_metrics'[Len(iteration_metrics')].iteration = iteration + 1
          ELSE iteration_metrics' = iteration_metrics]_vars

C27_Witness ==
    /\ Len(iteration_metrics) = 2
    /\ iteration_metrics[1].iteration = 1 /\ iteration_metrics[2].iteration = 2
    /\ iteration_metrics[1].overall_score # iteration_metrics[2].overall_score

CallsOrdered ==
    /\ refineCalls <= assessCalls
    /\ assessCalls <= genCalls
    /\ genCalls <= max_iterations
    /\ pc \in {"await_generate", "await_assess", "await_refine"} => genCalls = iteration + 1

\* C28: the calls of an iteration follow the order generate, assess,
\* refine: an assess call is made only by the step that parses the same
\* iteration's generation to a non-empty list, a refine call only by the
\* step that parses the same iteration's assessment without convergence,
\* and a generate call only on entry to the loop or when the iteration
\* index advances by one; at every point
\* refine calls <= assess calls <= generate calls <= max_iterations.
C28_StageOrder ==
    /\ []CallsOrdered
    /\ [][/\ assessCalls' # assessCalls =>
                /\ pc = "await_generate" /\ pc' = "await_assess"
                /\ event' = Event("generate", "cards")
                /\ assessCalls' = assessCalls + 1
                /\ iteration' = iteration
                /\ UNCHANGED <<genCalls, refineCalls>>
          /\ refineCalls' # refineCalls =>
                /\ pc = "await_assess" /\ pc' = "await_refine"
                /\ event' = Event("assess", "object")
                /\ ~ConvergenceCondition(assessment')
                /\ refineCalls' = refineCalls + 1
                /\ iteration' = iteration
                /\ UNCHANGED <<genCalls, assessCalls>>
          /\ genCalls' # genCalls =>
                /\ pc' = "await_generate"
                /\ genCalls' = genCalls + 1
                /\ UNCHANGED <<assessCalls, refineCalls>>
                /\ \/ pc \in {"start", "await_content"} /\ iteration' = 0 /\ genCalls = 0
                   \/ /\ pc \in {"await_generate", "await_assess", "await_refine"}
                      /\ iteration' = iteration + 1]_vars

C28_Witness ==
    /\ pc = "await_refine" /\ iteration = 1 /\ max_iterations = 2
    /\ genCalls = 2 /\ assessCalls = 2 /\ refineCalls = 2

\* a step that handles a generation response which is a JSON object
ParsedGeneration ==
    /\ pc = "await_generate"
    /\ answered' = answered + 1
    /\ event'.stage = "generate"
    /\ event'.kind \in {"cards", "empty"}

\* C29: a refined list is never assessed: while an assess call is
\* outstanding the candidate list is the one generated in that iteration; a
\* generation that parses replaces the list held, refined or not; a
\* refined list is returned only if its refinement was the last response
\* of the run or the last executed iteration's generation was unparseable.
C29_RefinedNeverAssessed ==
    /\ [](pc = "await_assess" =>
             /\ origin = "generated"
             /\ event = Event("generate", "cards")
             /\ Candidates = lastProduced)
    /\ [][ParsedGeneration =>
             /\ origin' = "generated"
             /\ Get(flashcard_data', "flashcards", <<>>) = lastProduced']_vars
    /\ []((pc = "done" /\ origin = "refined") =>
             \/ /\ event = Event("refine", "object")
                /\ iteration_metrics[Len(iteration_metrics)].iteration = iteration + 1
             \/ /\ event = Event("generate", "invalid")
                /\ iteration_metrics[Len(iteration_metrics)].iteration < iteration + 1)

C29_Witness ==
    /\ pc = "await_assess" /\ origin = "generated"
    /\ refineCalls > 0 /\ event = Event("generate", "cards")
    /\ feedback # SeedFeedback

\* C30: when the loop converges, the list materialized is the list sent to
\* the converging assessment, which is the list generated in that
\* iteration: the converging step leaves the candidate list as it was, and
\* no response is handled between that assessment and the return.
C30_ConvergedListMaterialized ==
    /\ [][(stop' = "converged" /\ stop # "converged") =>
             /\ ParsedAssessment
             /\ ConvergenceCondition(assessment')
             /\ origin = "generated"
             /\ Candidates = lastProduced
             /\ flashcard_data' = flashcard_data
             /\ pc' = "done"
             /\ SameCards(result'.cards, lastProduced)]_vars
    /\ [](stop = "converged" =>
             /\ pc = "done"
             /\ event = Event("assess", "object")
             /\ origin = "generated"
             /\ SameCards(result.cards, Candidates))

C30_Witness ==
    /\ stop = "converged" /\ iteration = 1 /\ refineCalls = 1
    /\ Len(result.cards) = 2
    /\ SameCards(result.cards, lastProduced)

====
